---- MODULE Spec2Model ----
(***************************************************************************)
(* Prompt Coach: the scoring-and-improvement pipeline of                   *)
(* src/prompt-coach/coach (heuristics.py, utils.py, openai_client.py,      *)
(* scorer.py).                                                             *)
(*                                                                         *)
(* A text (a Python str) is a sequence of tokens.  A token is a word or a  *)
(* fixed phrase; the token "\n" is a line break; two neighbouring word     *)
(* tokens are separated by one blank.  The empty sequence is "".           *)
(***************************************************************************)
EXTENDS Integers, Sequences, FiniteSets, TLC

\* Longest text drawn for score_prompt, in tokens.
MaxLen == 3

NL == "\n"

\* The tokens score_prompt is explored on: markers in the spelling the code
\* looks for, near misses (other case, other word form) and filler.
Vocab ==
    { "x", NL, "Write", "write", "Task:", "RHEL9", "Postgres", "idempotent",
      "ansible-lint", "Respond only with", "output", "YAML",
      "Do not fabricate", "Verification", "Acceptance", "test", "Act as" }

RECURSIVE SeqsUpTo(_, _)
\* Every sequence over S of length at most n.
SeqsUpTo(S, n) ==
    IF n = 0 THEN { <<>> }
    ELSE LET shorter == SeqsUpTo(S, n - 1)
         IN  shorter \cup { Append(s, x) : s \in { t \in shorter : Len(t) = n - 1 }, x \in S }

(***************************************************************************)
(* Python str operations on token texts.                                   *)
(***************************************************************************)

\* The blank-separated words of one token (str.split counts these).
WordsIn(tok) ==
    CASE tok = NL -> 0
      [] tok \in { "Respond only with", "Do not fabricate", "Do not fabricate;",
                   "commands to verify" } -> 3
      [] tok \in { "Act as", "no shell", "type hints", "code only" } -> 2
      [] OTHER -> 1

\* The needles of heuristics.py that occur in a token as a substring,
\* case-sensitively (Python's `needle in t`).
Substrings(tok) ==
    CASE tok = "RHEL9" -> { "RHEL" }
      [] tok = "RHEL9," -> { "RHEL" }
      [] tok = "ansible-lint" -> { "lint" }
      [] tok = "ansible-lint." -> { "lint" }
      [] tok = "Ansible" -> { "Ansible" }
      [] OTHER -> { tok }

\* str.lower() of a token, as re.I compares.
Lower(tok) ==
    CASE tok = "Write" -> "write"
      [] tok = "Task:" -> "task:"
      [] tok = "RHEL9" -> "rhel9"
      [] tok = "Postgres" -> "postgres"
      [] tok = "Respond only with" -> "respond only with"
      [] tok = "Output" -> "output"
      [] tok = "YAML" -> "yaml"
      [] tok = "YAML." -> "yaml."
      [] tok = "JSON" -> "json"
      [] tok = "Do not fabricate" -> "do not fabricate"
      [] tok = "Do not fabricate;" -> "do not fabricate;"
      [] tok = "Verification" -> "verification"
      [] tok = "Acceptance" -> "acceptance"
      [] tok = "Acceptance:" -> "acceptance:"
      [] tok = "Act as" -> "act as"
      [] OTHER -> tok

\* The word-bounded phrases (\bphrase\b) a lowered token holds.
PhrasesIn(low) ==
    CASE low = "do not fabricate;" -> { "do not fabricate" }
      [] low = "acceptance:" -> { "acceptance" }
      [] low = "yaml." -> { "yaml" }
      [] OTHER -> { low }

RECURSIVE lstrip(_)
lstrip(t) == IF t # <<>> /\ Head(t) = NL THEN lstrip(Tail(t)) ELSE t

RECURSIVE rstrip(_)
rstrip(t) ==
    IF t # <<>> /\ t[Len(t)] = NL THEN rstrip(SubSeq(t, 1, Len(t) - 1)) ELSE t

\* str.strip(): leading and trailing whitespace removed.
strip(t) == lstrip(rstrip(t))

RECURSIVE SumWords(_)
SumWords(t) == IF t = <<>> THEN 0 ELSE WordsIn(Head(t)) + SumWords(Tail(t))

\* len(t.split())
SplitLen(t) == SumWords(t)

\* needle in t
In(needle, t) == \E i \in 1..Len(t) : needle \in Substrings(t[i])

\* re.search(r"\bphrase\b", t, re.I)
SearchWord(phrase, t) == \E i \in 1..Len(t) : phrase \in PhrasesIn(Lower(t[i]))

(***************************************************************************)
(* heuristics.py                                                           *)
(***************************************************************************)

\* The format nouns of KEY_SIGNS["format"]: (JSON|YAML|table|code only), with
\* no word boundary, so a token holding one of them matches.
FormatNouns == { "json", "yaml", "yaml.", "table", "tables", "code only" }

\* The format pattern without its first alternative: only `Output ... noun`.
SearchFormat_outputonly(t) ==
    \E i \in 1..Len(t) :
        /\ "output" \in PhrasesIn(Lower(t[i]))
        /\ \E j \in (i + 1)..Len(t) :
              /\ Lower(t[j]) \in FormatNouns
              /\ \A k \in i..j : t[k] # NL

\* re.search(KEY_SIGNS["format"], t, re.I):
\* \bRespond only with\b | \bOutput\b.*(JSON|YAML|table|code only), where
\* `.` does not cross a line break.
SearchFormat(t) ==
    \/ SearchWord("respond only with", t)
    \/ \E i \in 1..Len(t) :
          /\ "output" \in PhrasesIn(Lower(t[i]))
          /\ \E j \in (i + 1)..Len(t) :
                /\ Lower(t[j]) \in FormatNouns
                /\ \A k \in i..j : t[k] # NL

\* re.search(KEY_SIGNS["guardrails"], t, re.I)
SearchGuardrails(t) ==
    \/ SearchWord("do not fabricate", t)
    \/ SearchWord("verification", t)
    \/ SearchWord("commands to verify", t)

\* re.search(KEY_SIGNS["accept"], t, re.I)
SearchAccept(t) ==
    \/ SearchWord("acceptance", t)
    \/ SearchWord("acceptance criteria", t)
    \/ SearchWord("tests", t)
    \/ SearchWord("validation", t)

ContextKeys == { "RHEL", "PostgreSQL", "Python", "Ansible", "versions", "constraints" }

ConstraintKeys == { "idempotent", "no shell", "lint", "type hints", "RLS", "security" }

\* A dropped cap: the clarity award above its documented maximum.
score_prompt_overcap(text) ==
    LET t == strip(text)
    IN  [ clarity         |-> IF SplitLen(t) >= 6 /\ (In("Task:", t) \/ In("Write", t) \/ In("Create", t))
                              THEN 25 ELSE 12,
          context         |-> IF \E k \in ContextKeys : In(k, t) THEN 20 ELSE 8,
          constraints     |-> IF \E k \in ConstraintKeys : In(k, t) THEN 15 ELSE 7,
          format_contract |-> IF SearchFormat(t) THEN 20 ELSE 8,
          guardrails      |-> IF SearchGuardrails(t) THEN 15 ELSE 6,
          acceptance      |-> IF SearchAccept(t) THEN 10 ELSE 4 ]

\* score_prompt(text) -> HeuristicScores
score_prompt(text) ==
    LET t == strip(text)
    IN  [ clarity         |-> IF SplitLen(t) >= 6 /\ (In("Task:", t) \/ In("Write", t) \/ In("Create", t))
                              THEN 20 ELSE 12,
          context         |-> IF \E k \in ContextKeys : In(k, t) THEN 20 ELSE 8,
          constraints     |-> IF \E k \in ConstraintKeys : In(k, t) THEN 15 ELSE 7,
          format_contract |-> IF SearchFormat(t) THEN 20 ELSE 8,
          guardrails      |-> IF SearchGuardrails(t) THEN 15 ELSE 6,
          acceptance      |-> IF SearchAccept(t) THEN 10 ELSE 4 ]

\* total(h)
total(h) ==
    h.clarity + h.context + h.constraints + h.format_contract + h.guardrails + h.acceptance

(***************************************************************************)
(* utils.py: unified_diff, over difflib (SequenceMatcher without junk; the *)
(* autojunk heuristic needs 200 lines and is out of reach of the bounds).  *)
(* Indices are Python's: a[i] is the model's a[i + 1], ranges half-open.   *)
(***************************************************************************)

\* Index of the first line break of s, or Len(s) when it holds none.
FirstBreak(s) ==
    IF \E i \in 1..Len(s) : s[i] = NL
    THEN CHOOSE i \in 1..Len(s) : s[i] = NL /\ \A k \in 1..(i - 1) : s[k] # NL
    ELSE Len(s)

RECURSIVE splitlines(_)
\* str.splitlines(keepends=True): each line keeps its line break.
splitlines(s) ==
    IF s = <<>> THEN <<>>
    ELSE LET n == FirstBreak(s)
         IN  << SubSeq(s, 1, n) >> \o splitlines(SubSeq(s, n + 1, Len(s)))

RECURSIVE RunLen(_, _, _, _, _, _)
\* Length of the common run of a and b that starts at (i, j), inside the window.
RunLen(a, b, i, j, ahi, bhi) ==
    IF i < ahi /\ j < bhi /\ a[i + 1] = b[j + 1]
    THEN 1 + RunLen(a, b, i + 1, j + 1, ahi, bhi)
    ELSE 0

SetMax(S) == CHOOSE x \in S : \A y \in S : y <= x

SetMin(S) == CHOOSE x \in S : \A y \in S : x <= y

\* SequenceMatcher.find_longest_match: the longest block, of those the one
\* that starts earliest in a, of those the one that starts earliest in b.
find_longest_match(a, b, alo, ahi, blo, bhi) ==
    LET cand == { p \in (alo..(ahi - 1)) \X (blo..(bhi - 1)) : a[p[1] + 1] = b[p[2] + 1] }
        size(p) == RunLen(a, b, p[1], p[2], ahi, bhi)
    IN  IF cand = {} THEN << alo, blo, 0 >>
        ELSE LET k   == SetMax({ size(p) : p \in cand })
                 top == { p \in cand : size(p) = k }
                 i   == SetMin({ p[1] : p \in top })
                 j   == SetMin({ p[2] : p \in { q \in top : q[1] = i } })
             IN  << i, j, k >>

RECURSIVE match_blocks(_, _, _, _, _, _)
RECURSIVE around_block(_, _, _, _, _, _, _)
\* get_matching_blocks' queue: the longest block of the window, then the
\* windows to its left and to its right; in sorted order.
match_blocks(a, b, alo, ahi, blo, bhi) ==
    around_block(a, b, alo, ahi, blo, bhi, find_longest_match(a, b, alo, ahi, blo, bhi))

\* The block m = (i, j, k) of the window with the blocks of both sides.
around_block(a, b, alo, ahi, blo, bhi, m) ==
    IF m[3] = 0 THEN <<>>
    ELSE (IF alo < m[1] /\ blo < m[2] THEN match_blocks(a, b, alo, m[1], blo, m[2]) ELSE <<>>)
         \o << m >>
         \o (IF m[1] + m[3] < ahi /\ m[2] + m[3] < bhi
             THEN match_blocks(a, b, m[1] + m[3], ahi, m[2] + m[3], bhi) ELSE <<>>)

RECURSIVE collapse(_, _)
\* get_matching_blocks' second loop: adjacent blocks merged; cur is (i1, j1, k1).
collapse(blocks, cur) ==
    IF blocks = <<>> THEN (IF cur[3] # 0 THEN << cur >> ELSE <<>>)
    ELSE LET nxt == Head(blocks)
         IN  IF cur[1] + cur[3] = nxt[1] /\ cur[2] + cur[3] = nxt[2]
             THEN collapse(Tail(blocks), << cur[1], cur[2], cur[3] + nxt[3] >>)
             ELSE (IF cur[3] # 0 THEN << cur >> ELSE <<>>) \o collapse(Tail(blocks), nxt)

\* SequenceMatcher.get_matching_blocks, the (la, lb, 0) sentinel last.
get_matching_blocks(a, b) ==
    Append(collapse(match_blocks(a, b, 0, Len(a), 0, Len(b)), << 0, 0, 0 >>),
           << Len(a), Len(b), 0 >>)

RECURSIVE opcodes_from(_, _, _)
\* get_opcodes' loop over the matching blocks, from position (i, j).
opcodes_from(blocks, i, j) ==
    IF blocks = <<>> THEN <<>>
    ELSE LET ai   == Head(blocks)[1]
             bj   == Head(blocks)[2]
             size == Head(blocks)[3]
             tag  == IF i < ai /\ j < bj THEN "replace"
                     ELSE IF i < ai THEN "delete"
                     ELSE IF j < bj THEN "insert"
                     ELSE ""
         IN  (IF tag # "" THEN << << tag, i, ai, j, bj >> >> ELSE <<>>)
             \o (IF size # 0 THEN << << "equal", ai, ai + size, bj, bj + size >> >> ELSE <<>>)
             \o opcodes_from(Tail(blocks), ai + size, bj + size)

\* SequenceMatcher.get_opcodes: (tag, i1, i2, j1, j2)
get_opcodes(a, b) == opcodes_from(get_matching_blocks(a, b), 0, 0)

Max(x, y) == IF x >= y THEN x ELSE y

Min(x, y) == IF x <= y THEN x ELSE y

\* if not codes: codes = [("equal", 0, 1, 0, 1)]
or_one_equal(codes) == IF codes = <<>> THEN << << "equal", 0, 1, 0, 1 >> >> ELSE codes

\* A code with its start moved up to n before its end.
keep_tail(c, n) == << c[1], Max(c[2], c[3] - n), c[3], Max(c[4], c[5] - n), c[5] >>

\* A code with its end moved down to n after its start.
keep_head(c, n) == << c[1], c[2], Min(c[3], c[2] + n), c[4], Min(c[5], c[4] + n) >>

\* if codes[0][0] == 'equal': keep its last n lines
trim_first(codes, n) ==
    IF codes[1][1] = "equal" THEN [ codes EXCEPT ![1] = keep_tail(@, n) ] ELSE codes

\* if codes[-1][0] == 'equal': keep its first n lines
trim_last(codes, n) ==
    IF codes[Len(codes)][1] = "equal"
    THEN [ codes EXCEPT ![Len(codes)] = keep_head(@, n) ]
    ELSE codes

\* get_grouped_opcodes' first steps: an empty list becomes one equal code, and
\* a leading and a trailing equal code are cut to n lines of context.
trimmed_codes(a, b, n) == trim_last(trim_first(or_one_equal(get_opcodes(a, b)), n), n)

RECURSIVE group_codes(_, _, _)
\* get_grouped_opcodes' loop: a long equal code closes the group and opens
\* the next; the last group is dropped when it is one equal code.
group_codes(codes, group, n) ==
    IF codes = <<>>
    THEN IF group # <<>> /\ ~(Len(group) = 1 /\ group[1][1] = "equal") THEN << group >> ELSE <<>>
    ELSE LET c == Head(codes)
         IN  IF c[1] = "equal" /\ c[3] - c[2] > n + n
             THEN << Append(group, keep_head(c, n)) >>
                  \o group_codes(Tail(codes), << keep_tail(c, n) >>, n)
             ELSE group_codes(Tail(codes), Append(group, c), n)

\* SequenceMatcher.get_grouped_opcodes(n)
get_grouped_opcodes(a, b, n) == group_codes(trimmed_codes(a, b, n), <<>>, n)

\* difflib._format_range_unified(start, stop)
format_range_unified(start, stop) ==
    LET beginning == start + 1
        length    == stop - start
    IN  IF length = 1 THEN ToString(beginning)
        ELSE ToString(IF length = 0 THEN beginning - 1 ELSE beginning) \o "," \o ToString(length)

\* The lines lines[i1 + 1 .. i2], each behind the mark.
Marked(mark, lines, i1, i2) == [ k \in 1..(i2 - i1) |-> << mark >> \o lines[i1 + k] ]

RECURSIVE Flatten(_)
\* "".join(parts)
Flatten(parts) == IF parts = <<>> THEN <<>> ELSE Head(parts) \o Flatten(Tail(parts))

\* The lines one opcode yields: ' ' for equal, '-' for replace and delete,
\* '+' for replace and insert.
code_lines(a, b, c) ==
    IF c[1] = "equal" THEN Marked(" ", a, c[2], c[3])
    ELSE (IF c[1] \in { "replace", "delete" } THEN Marked("-", a, c[2], c[3]) ELSE <<>>)
         \o (IF c[1] \in { "replace", "insert" } THEN Marked("+", b, c[4], c[5]) ELSE <<>>)

\* The lines one group yields: the hunk header, then each opcode's lines.
hunk_lines(a, b, group) ==
    LET first == group[1]
        last  == group[Len(group)]
    IN  << << "@@", "-" \o format_range_unified(first[2], last[3]),
              "+" \o format_range_unified(first[4], last[5]), "@@", NL >> >>
        \o Flatten([ k \in 1..Len(group) |-> code_lines(a, b, group[k]) ])

\* An insertion-blind diff: the '+' lines of an inserted run are not yielded.
difflib_unified_diff_noinsert(a, b) ==
    LET groups == get_grouped_opcodes(a, b, 3)
        drop(c) == IF c[1] = "insert" THEN << "equal", c[2], c[2], c[4], c[4] >> ELSE c
    IN  IF groups = <<>> THEN <<>>
        ELSE << << "---", "original", NL >>, << "+++", "improved", NL >> >>
             \o Flatten([ g \in 1..Len(groups) |->
                            hunk_lines(a, b, [ k \in 1..Len(groups[g]) |-> drop(groups[g][k]) ]) ])

\* difflib.unified_diff(a, b, fromfile="original", tofile="improved"): the
\* lines it yields, n = 3 lines of context; the two file lines come before
\* the first hunk and only when there is one.
difflib_unified_diff(a, b) ==
    LET groups == get_grouped_opcodes(a, b, 3)
    IN  IF groups = <<>> THEN <<>>
        ELSE << << "---", "original", NL >>, << "+++", "improved", NL >> >>
             \o Flatten([ g \in 1..Len(groups) |-> hunk_lines(a, b, groups[g]) ])

\* unified_diff(a, b) -> str
unified_diff(a, b) == Flatten(difflib_unified_diff(splitlines(a), splitlines(b)))

(***************************************************************************)
(* Python values, as the judge's JSON and the result dict hold them, and   *)
(* the two ways a call ends.                                               *)
(***************************************************************************)

\* Every value carries its type t and its content v.
PyNone == [ t |-> "None", v |-> <<>> ]

PyInt(n) == [ t |-> "int", v |-> n ]

PyStr(s) == [ t |-> "str", v |-> s ]

PyList(l) == [ t |-> "list", v |-> l ]

\* d: a function from keys to values
PyDict(d) == [ t |-> "dict", v |-> d ]

EmptyDict == PyDict([ k \in {} |-> PyNone ])

\* bool(x)
Truthy(x) ==
    CASE x.t = "None" -> FALSE
      [] x.t = "int"  -> x.v # 0
      [] x.t = "dict" -> DOMAIN x.v # {}
      [] OTHER        -> x.v # <<>>

\* d.get(key, default), d a dict
PyGet(d, key, default) == IF key \in DOMAIN d.v THEN d.v[key] ELSE default

Return(x) == [ raised |-> FALSE, exc |-> "", val |-> x ]

Raise(e) == [ raised |-> TRUE, exc |-> e, val |-> PyNone ]

(***************************************************************************)
(* utils.py: configuration and JSON                                        *)
(***************************************************************************)

\* float(s): the settings the model draws
float(s) ==
    CASE s = << "30" >> -> Return(30)
      [] s = << "60" >> -> Return(60)
      [] OTHER -> Raise("ValueError")

\* os.getenv(name, default) / os.environ.get(name): unset is None
getenv(environ, name, default) ==
    IF environ[name].t = "None" THEN default ELSE environ[name]

\* get_model()
get_model(environ) == getenv(environ, "PROMPT_COACH_MODEL", PyStr(<< "gpt-4o-mini" >>)).v

\* get_timeout()
get_timeout(environ) == float(getenv(environ, "PROMPT_COACH_TIMEOUT", PyStr(<< "30" >>)).v)

\* The rewrite the judge returns in the well-formed bodies.
Rewritten ==
    << "Act as", "reviewer.", NL, "Task:", "Write", "idempotent", "playbook.", NL >>

\* The prompt of tools/ui_streamlit.py's DEFAULT_PROMPT.
DefaultPrompt == << "write", "postgres", "stuff", NL >>

\* json.loads on the JSON documents the judge is modelled to send, each one
\* token of text, with the value it parses to; every other text is not JSON.
JsonDocs ==
    << << "{}", EmptyDict >>,
       << "[]", PyList(<<>>) >>,
       << "null", PyNone >>,
       << "{\"scorecard\": {\"total\": 72}, \"improved\": \"Act as reviewer.\\nTask: Write idempotent playbook.\\n\", \"verification\": [\"ansible-lint\"], \"notes\": [\"role added\"]}",
          PyDict([ scorecard    |-> PyDict([ total |-> PyInt(72) ]),
                   improved     |-> PyStr(Rewritten),
                   verification |-> PyList(<< PyStr(<< "ansible-lint" >>) >>),
                   notes        |-> PyList(<< PyStr(<< "role", "added" >>) >>) ]) >>,
       << "{\"scorecard\": {\"total\": 100}, \"improved\": \"write postgres stuff\\n\"}",
          PyDict([ scorecard |-> PyDict([ total |-> PyInt(100) ]),
                   improved  |-> PyStr(DefaultPrompt) ]) >>,
       << "{\"scorecard\": {\"total\": 73, \"clarity\": 15}, \"improved\": \"x\", \"verification\": [], \"notes\": []}",
          PyDict([ scorecard    |-> PyDict([ total |-> PyInt(73), clarity |-> PyInt(15) ]),
                   improved     |-> PyStr(<< "x" >>),
                   verification |-> PyList(<<>>),
                   notes        |-> PyList(<<>>) ]) >>,
       << "{\"scorecard\": {\"total\": 0}, \"improved\": \"Act as reviewer.\\nTask: Write idempotent playbook.\\n\"}",
          PyDict([ scorecard |-> PyDict([ total |-> PyInt(0) ]),
                   improved  |-> PyStr(Rewritten) ]) >>,
       << "{\"scorecard\": {\"total\": 55}, \"improved\": \"\"}",
          PyDict([ scorecard |-> PyDict([ total |-> PyInt(55) ]),
                   improved  |-> PyStr(<<>>) ]) >>,
       << "{\"improved\": null}", PyDict([ improved |-> PyNone ]) >>,
       << "{\"improved\": 5}", PyDict([ improved |-> PyInt(5) ]) >>,
       << "{\"scorecard\": null}", PyDict([ scorecard |-> PyNone ]) >>,
       << "{\"scorecard\": 72}", PyDict([ scorecard |-> PyInt(72) ]) >>,
       << "{\"scorecard\": {\"total\": null}, \"improved\": \"x\"}",
          PyDict([ scorecard |-> PyDict([ total |-> PyNone ]),
                   improved  |-> PyStr(<< "x" >>) ]) >>,
       << "{\"scorecard\": {\"total\": \"high\"}}",
          PyDict([ scorecard |-> PyDict([ total |-> PyStr(<< "high" >>) ]) ]) >> >>

\* Whether text s is the JSON document number i.
IsDoc(s, i) == Len(s) = 1 /\ s[1] = JsonDocs[i][1]

\* json.loads(s)
json_loads(s) ==
    IF \E i \in DOMAIN JsonDocs : IsDoc(s, i)
    THEN Return(JsonDocs[CHOOSE i \in DOMAIN JsonDocs : IsDoc(s, i)][2])
    ELSE Raise("JSONDecodeError")

\* The default judgment of safe_json_loads' except branch.
default_judgment(s) ==
    PyDict([ scorecard    |-> EmptyDict,
             improved     |-> PyStr(s),
             verification |-> PyList(<<>>),
             notes        |-> PyList(<< PyStr(<< "non-json model output" >>) >>) ])

\* safe_json_loads(s)
safe_json_loads(s) ==
    IF json_loads(s).raised THEN default_judgment(s) ELSE json_loads(s).val

(***************************************************************************)
(* openai_client.py                                                        *)
(***************************************************************************)

\* templates.py: the fixed system instruction, one token.
SYSTEM_PROMPT == << "SYSTEM_PROMPT" >>

\* A test for the unset key only (`key is None`): an empty key passes.
get_client_unset_only(environ) ==
    IF environ["OPENAI_API_KEY"].t = "None"
    THEN Raise("RuntimeError")
    ELSE Return(PyStr(environ["OPENAI_API_KEY"].v))

\* get_client(): the client, or RuntimeError when the key is unset or empty.
get_client(environ) ==
    IF ~Truthy(environ["OPENAI_API_KEY"])
    THEN Raise("RuntimeError")
    ELSE Return(PyStr(environ["OPENAI_API_KEY"].v))

\* request_params of judge_and_rewrite, as first sent.
request_params(model, timeout, system_prompt, user_prompt) ==
    [ model           |-> model,
      messages        |-> << [ role |-> "system", content |-> system_prompt ],
                             [ role |-> "user", content |-> user_prompt ] >>,
      response_format |-> "json_object",
      timeout         |-> timeout,
      temperature     |-> "0.2" ]

\* request_params.pop("temperature")
pop_temperature(params) == [ k \in DOMAIN params \ { "temperature" } |-> params[k] ]

\* The needles of the retry test that occur in a token of an error message.
ErrSubstrings(tok) ==
    CASE tok = "'temperature'" -> { "temperature" }
      [] tok = "unsupported value:" -> { "unsupported" }
      [] OTHER -> {}

\* str.lower() of a token of an error message.
ErrLower(tok) ==
    CASE tok = "Unsupported value:" -> "unsupported value:"
      [] tok = "Connection error." -> "connection error."
      [] tok = "Request timed out." -> "request timed out."
      [] tok = "Rate limit reached." -> "rate limit reached."
      [] OTHER -> tok

\* A retry test that takes either word for the condition.
should_retry_either(msg) ==
    \/ \E i \in 1..Len(msg) : "temperature" \in ErrSubstrings(msg[i])
    \/ \E i \in 1..Len(msg) : "unsupported" \in ErrSubstrings(ErrLower(msg[i]))

\* "temperature" in str(e) and "unsupported" in str(e).lower()
should_retry(msg) ==
    /\ \E i \in 1..Len(msg) : "temperature" \in ErrSubstrings(msg[i])
    /\ \E i \in 1..Len(msg) : "unsupported" \in ErrSubstrings(ErrLower(msg[i]))

\* The default taken whether or not the service reports usage.
getattr_default(u, name) == 0

\* getattr(u, name, 0): u is r.usage, None when the service reports none.
getattr(u, name) == IF u.t = "None" THEN 0 ELSE u.v[name]

\* ModelUsage(prompt_tokens=..., completion_tokens=..., total_tokens=..., model=model)
ModelUsage(u, model) ==
    [ prompt_tokens     |-> getattr(u, "prompt_tokens"),
      completion_tokens |-> getattr(u, "completion_tokens"),
      total_tokens      |-> getattr(u, "total_tokens"),
      model             |-> model ]

\* The body parsed as it is, without `or "{}"`: an absent or empty body is no
\* JSON and gets the default judgment of the empty text.
parse_response_raw(r, model) ==
    [ data |-> safe_json_loads(r.content.v), usage |-> ModelUsage(r.usage, model) ]

\* judge_and_rewrite from the response r on: (data, usage)
parse_response(r, model) ==
    LET content == IF Truthy(r.content) THEN r.content.v ELSE << "{}" >>
    IN  [ data |-> safe_json_loads(content), usage |-> ModelUsage(r.usage, model) ]

(***************************************************************************)
(* scorer.py                                                               *)
(***************************************************************************)

\* Rounding a half up, as round() did in Python 2.
round_half_up(s) == (s + 1) \div 2

\* round(s / 2): Python 3 rounds a half to the even neighbour.
round_half(s) ==
    LET q == s \div 2
    IN  IF s % 2 = 0 THEN q ELSE IF q % 2 = 0 THEN q ELSE q + 1

\* The two totals added and not halved.
final_score_unhalved(local_score, model_score) ==
    LET addend == IF Truthy(model_score) THEN model_score ELSE PyInt(0)
    IN  IF addend.t # "int" THEN Raise("TypeError")
        ELSE Return(local_score + addend.v)

\* final = round((local_score + (model_score or 0)) / 2)
final_score(local_score, model_score) ==
    LET addend == IF Truthy(model_score) THEN model_score ELSE PyInt(0)
    IN  IF addend.t # "int" THEN Raise("TypeError")
        ELSE Return(round_half(local_score + addend.v))

\* score_and_improve from the judge's answer on: the dict it returns, or the
\* exception of the first statement that raises.
merge(raw_prompt, local_score, model_data, usage) ==
    IF model_data.t # "dict" THEN Raise("AttributeError")
    ELSE
      LET scorecard == PyGet(model_data, "scorecard", EmptyDict)
      IN  IF scorecard.t # "dict" THEN Raise("AttributeError")
          ELSE
            LET model_score  == PyGet(scorecard, "total", PyInt(0))
                improved     == PyGet(model_data, "improved", PyStr(raw_prompt))
                verification == PyGet(model_data, "verification", PyList(<<>>))
                notes        == PyGet(model_data, "notes", PyList(<<>>))
                final        == final_score(local_score, model_score)
            IN  IF final.raised THEN final
                ELSE IF improved.t # "str" THEN Raise("AttributeError")
                ELSE Return([ local_score  |-> local_score,
                              model_score  |-> model_score,
                              final_score  |-> final.val,
                              scorecard    |-> scorecard,
                              improved     |-> improved,
                              diff         |-> unified_diff(raw_prompt, improved.v),
                              verification |-> verification,
                              notes        |-> notes,
                              usage        |-> usage ])

\* A catch-all around the judge call: a failed call yields the defaulted result.
failure_outcome_defaulted(raw_prompt, local_score, err) ==
    merge(raw_prompt, local_score, EmptyDict, ModelUsage(PyNone, <<>>))

\* A failed judge call inside score_and_improve: nothing catches the
\* exception, it leaves score_and_improve.
failure_outcome(raw_prompt, local_score, err) == Raise(err.type)

(***************************************************************************)
(* The evaluations, the process environment and the judge service.         *)
(***************************************************************************)

\* The concurrent evaluations (calls of score_and_improve).
Evals == { 1, 2 }

\* The fixture of tests/test_heuristics.py.
FixturePrompt ==
    << "Act as", "a", "senior", "Ansible", "reviewer.", NL,
       "Context:", "RHEL9,", "Postgres", "16.", NL,
       "Task:", "Write", "idempotent", "playbook.", NL,
       "Respond only with", "YAML.", NL,
       "Do not fabricate;", "if", "unsure,", "suggest", "commands", "to", "verify.", NL,
       "Acceptance:", "passes", "ansible-lint." >>

\* The prompts an evaluation is called with.
Prompts == { <<>>, DefaultPrompt, FixturePrompt }

\* The process environments: the key unset, empty or set; the timeout unset
\* or no number; the model unset or set.
Unset == PyNone

Environs ==
    [ OPENAI_API_KEY       : { Unset, PyStr(<<>>), PyStr(<< "sk-test" >>) },
      PROMPT_COACH_MODEL   : { Unset },
      PROMPT_COACH_TIMEOUT : { Unset, PyStr(<< "30s" >>) } ]
    \cup
    [ OPENAI_API_KEY       : { PyStr(<< "sk-test" >>) },
      PROMPT_COACH_MODEL   : { PyStr(<< "gpt-4o" >>) },
      PROMPT_COACH_TIMEOUT : { PyStr(<< "60" >>) } ]

\* r.choices[0].message.content of the bodies the judge sends: none, empty,
\* the JSON documents, prose, and a JSON document cut short.
Prose == << "Sure,", "here", "it", "is:", NL, "Write", "x" >>

Contents ==
    { PyNone, PyStr(<<>>), PyStr(Prose), PyStr(<< "{\"improved\": \"Act" >>) }
    \cup { PyStr(<< JsonDocs[i][1] >>) : i \in DOMAIN JsonDocs }

\* r.usage: none, or the three counts.
Usages ==
    { PyNone,
      [ t |-> "CompletionUsage",
        v |-> [ prompt_tokens |-> 120, completion_tokens |-> 80, total_tokens |-> 200 ] ] }

\* The response objects of a request that succeeds.
Responses == [ content : Contents, usage : Usages ]

\* The exceptions of a request that fails: the temperature rejected, another
\* parameter rejected, no connection, the timeout, the rate limit.
TemperatureRejected ==
    [ type |-> "BadRequestError",
      msg  |-> << "Unsupported value:", "'temperature'", "does not support 0.2 with this model." >> ]

Errors ==
    { TemperatureRejected,
      [ type |-> "BadRequestError",
        msg  |-> << "Unsupported value:", "'messages[0].role'", "does not support 'system' with this model." >> ],
      [ type |-> "APIConnectionError", msg |-> << "Connection error." >> ],
      [ type |-> "APITimeoutError", msg |-> << "Request timed out." >> ],
      [ type |-> "RateLimitError", msg |-> << "Rate limit reached." >> ] }

\* The service rejects the temperature only of a request that carries one.
ErrorsFor(params) ==
    IF "temperature" \in DOMAIN params THEN Errors ELSE Errors \ { TemperatureRejected }

NoResponse == [ content |-> PyNone, usage |-> PyNone ]

NoError == [ type |-> "", msg |-> <<>> ]

\* Nothing in flight on a connection.
NoMsg == [ to |-> 0, kind |-> "none", r |-> NoResponse, err |-> NoError ]

NoCall == [ fn |-> "none", args |-> <<>>, done |-> TRUE, ret |-> Return(PyNone) ]

VARIABLES
    env,          \* os.environ, process-wide
    pc,           \* each evaluation's position: idle, await, done, raised
    raw_prompt,   \* score_and_improve's argument
    local_score,  \* score_and_improve's local_score
    sent,         \* the requests each evaluation has issued, in order
    wire,         \* per connection, the answer in flight to the client
    served,       \* the answers the service has given each evaluation, in order
    received,     \* the answers each evaluation has taken, in order
    outcome,      \* what score_and_improve returned or raised
    call          \* a single call of a pure function: its arguments and result

vars ==
    << env, pc, raw_prompt, local_score, sent, wire, served, received, outcome, call >>

pipeline == << env, pc, raw_prompt, local_score, sent, wire, served, received, outcome >>

InitPipeline ==
    /\ env \in Environs
    /\ pc = [ e \in Evals |-> "idle" ]
    /\ raw_prompt = [ e \in Evals |-> <<>> ]
    /\ local_score = [ e \in Evals |-> 0 ]
    /\ sent = [ e \in Evals |-> <<>> ]
    /\ wire = [ e \in Evals |-> NoMsg ]
    /\ served = [ e \in Evals |-> <<>> ]
    /\ received = [ e \in Evals |-> <<>> ]
    /\ outcome = [ e \in Evals |-> Return(PyNone) ]

Init ==
    /\ InitPipeline
    /\ call = NoCall

\* An answer read from any connection, not only the evaluation's own.
InboxAny(e) == { wire[x] : x \in Evals } \ { NoMsg }

\* The answer in flight on the evaluation's own connection: get_client builds
\* a client of its own for every call of judge_and_rewrite.
Inbox(e) == { wire[e] } \ { NoMsg }

\* score_and_improve up to the first request: the local score, the client,
\* the model and the timeout, then the request with the temperature.
Begin(e, p) ==
    /\ pc[e] = "idle"
    /\ raw_prompt' = [ raw_prompt EXCEPT ![e] = p ]
    /\ local_score' = [ local_score EXCEPT ![e] = total(score_prompt(p)) ]
    /\ IF get_client(env).raised
       THEN /\ pc' = [ pc EXCEPT ![e] = "raised" ]
            /\ outcome' = [ outcome EXCEPT ![e] = get_client(env) ]
            /\ sent' = sent
       ELSE IF get_timeout(env).raised
       THEN /\ pc' = [ pc EXCEPT ![e] = "raised" ]
            /\ outcome' = [ outcome EXCEPT ![e] = get_timeout(env) ]
            /\ sent' = sent
       ELSE /\ pc' = [ pc EXCEPT ![e] = "await" ]
            /\ outcome' = outcome
            /\ sent' = [ sent EXCEPT ![e] =
                           << request_params(get_model(env), get_timeout(env).val, SYSTEM_PROMPT, p) >> ]
    /\ UNCHANGED << env, wire, served, received, call >>

\* The judge answers the evaluation's open request with a response.
JudgeResponds(e, r) ==
    /\ pc[e] = "await"
    /\ wire[e] = NoMsg
    /\ Len(served[e]) < Len(sent[e])
    /\ LET m == [ to |-> e, kind |-> "response", r |-> r, err |-> NoError ]
       IN  /\ wire' = [ wire EXCEPT ![e] = m ]
           /\ served' = [ served EXCEPT ![e] = Append(@, m) ]
    /\ UNCHANGED << env, pc, raw_prompt, local_score, sent, received, outcome, call >>

\* The request fails: the service rejects it, or the client gives up.
JudgeFails(e, err) ==
    /\ pc[e] = "await"
    /\ wire[e] = NoMsg
    /\ Len(served[e]) < Len(sent[e])
    /\ err \in ErrorsFor(sent[e][Len(sent[e])])
    /\ LET m == [ to |-> e, kind |-> "error", r |-> NoResponse, err |-> err ]
       IN  /\ wire' = [ wire EXCEPT ![e] = m ]
           /\ served' = [ served EXCEPT ![e] = Append(@, m) ]
    /\ UNCHANGED << env, pc, raw_prompt, local_score, sent, received, outcome, call >>

\* create() returns: judge_and_rewrite parses the response and
\* score_and_improve merges it with the local score.
OnResponse(e) ==
    /\ pc[e] = "await"
    /\ \E m \in Inbox(e) :
          /\ m.kind = "response"
          /\ LET parsed == parse_response(m.r, sent[e][1].model)
                 out    == merge(raw_prompt[e], local_score[e], parsed.data, parsed.usage)
             IN  /\ outcome' = [ outcome EXCEPT ![e] = out ]
                 /\ pc' = [ pc EXCEPT ![e] = IF out.raised THEN "raised" ELSE "done" ]
          /\ received' = [ received EXCEPT ![e] = Append(@, m) ]
          /\ wire' = [ wire EXCEPT ![m.to] = NoMsg ]
    /\ UNCHANGED << env, raw_prompt, local_score, sent, served, call >>

\* create() raises.  In the try block (the first request) the except clause
\* tests the message and sends the request again without the temperature, or
\* re-raises; the second request is outside any try block.
OnError(e) ==
    /\ pc[e] = "await"
    /\ \E m \in Inbox(e) :
          /\ m.kind = "error"
          /\ IF Len(sent[e]) = 1 /\ should_retry(m.err.msg)
             THEN /\ sent' = [ sent EXCEPT ![e] = Append(@, pop_temperature(sent[e][1])) ]
                  /\ UNCHANGED << pc, outcome >>
             ELSE LET out == failure_outcome(raw_prompt[e], local_score[e], m.err)
                  IN  /\ outcome' = [ outcome EXCEPT ![e] = out ]
                      /\ pc' = [ pc EXCEPT ![e] = IF out.raised THEN "raised" ELSE "done" ]
                      /\ sent' = sent
          /\ received' = [ received EXCEPT ![e] = Append(@, m) ]
          /\ wire' = [ wire EXCEPT ![m.to] = NoMsg ]
    /\ UNCHANGED << env, raw_prompt, local_score, served, call >>

Next ==
    \/ \E e \in Evals, p \in Prompts : Begin(e, p)
    \/ \E e \in Evals, r \in Responses : JudgeResponds(e, r)
    \/ \E e \in Evals, err \in Errors : JudgeFails(e, err)
    \/ \E e \in Evals : OnResponse(e)
    \/ \E e \in Evals : OnError(e)

Spec == Init /\ [][Next]_vars

(***************************************************************************)
(* Single calls of the pure functions, the pipeline idle.                  *)
(***************************************************************************)

\* Longest text drawn for unified_diff, in tokens.
MaxDiffLen == 3

\* The tokens unified_diff is explored on.
DiffAlphabet == { "a", "b", NL }

DefaultEnviron ==
    [ OPENAI_API_KEY |-> Unset, PROMPT_COACH_MODEL |-> Unset, PROMPT_COACH_TIMEOUT |-> Unset ]

InitCall(fn, argss) ==
    /\ InitPipeline
    /\ env = DefaultEnviron
    /\ call \in { [ fn |-> fn, args |-> a, done |-> FALSE, ret |-> Return(PyNone) ] : a \in argss }

\* s = score_prompt(txt); total(s)
ApplyScore ==
    /\ call.fn = "score_prompt"
    /\ ~call.done
    /\ call' = [ call EXCEPT !.done = TRUE,
                             !.ret = Return([ h     |-> score_prompt(call.args[1]),
                                              total |-> total(score_prompt(call.args[1])) ]) ]
    /\ UNCHANGED pipeline

SpecScore == InitCall("score_prompt", { << t >> : t \in SeqsUpTo(Vocab, MaxLen) }) /\ [][ApplyScore]_vars

\* unified_diff(a, b)
ApplyDiff ==
    /\ call.fn = "unified_diff"
    /\ ~call.done
    /\ call' = [ call EXCEPT !.done = TRUE,
                             !.ret = Return(unified_diff(call.args[1], call.args[2])) ]
    /\ UNCHANGED pipeline

SpecDiff ==
    /\ InitCall("unified_diff", SeqsUpTo(DiffAlphabet, MaxDiffLen) \X SeqsUpTo(DiffAlphabet, MaxDiffLen))
    /\ [][ApplyDiff]_vars

\* What the judge's answer says of its total: no scorecard, a scorecard
\* without a total, a null total, or an integer in [0, 100].
JudgeTotals ==
    { [ kind |-> k, total |-> PyNone ] : k \in { "no scorecard", "no total", "null" } }
    \cup { [ kind |-> "int", total |-> PyInt(m) ] : m \in 0..100 }

\* The judge's answer with that total and nothing else.
judgment_with(jt) ==
    CASE jt.kind = "no scorecard" -> EmptyDict
      [] jt.kind = "no total" -> PyDict([ scorecard |-> EmptyDict ])
      [] OTHER -> PyDict([ scorecard |-> PyDict([ total |-> jt.total ]) ])

\* score_and_improve's merge of a local total with a judge's answer.
ApplyMerge ==
    /\ call.fn = "merge"
    /\ ~call.done
    /\ call' = [ call EXCEPT !.done = TRUE,
                             !.ret = merge(DefaultPrompt, call.args[1], judgment_with(call.args[2]),
                                           ModelUsage(PyNone, << "gpt-4o-mini" >>)) ]
    /\ UNCHANGED pipeline

SpecFinal == InitCall("merge", (0..100) \X JudgeTotals) /\ [][ApplyMerge]_vars

(***************************************************************************)
(* Properties.                                                             *)
(***************************************************************************)

\* The evaluation has ended, with a result or an exception.
Ended(e) == pc[e] \in { "done", "raised" }

\* The last answer the evaluation took.
LastTaken(e) == received[e][Len(received[e])]

\* The evaluation's judge request succeeded: the last answer it took is a response.
GotResponse(e) == received[e] # <<>> /\ LastTaken(e).kind = "response"

\* The bodies that are text and no JSON.
NonJsonContents == { PyStr(Prose), PyStr(<< "{\"improved\": \"Act" >>) }

\* The result's notes and verification as the default judgment has them.
DefaultLists(res) ==
    /\ res.verification = PyList(<<>>)
    /\ res.notes.t = "list"
    /\ Len(res.notes.v) >= 1

\* C1: when the judge request succeeds and the body is no valid JSON,
\* score_and_improve raises nothing and returns a result whose improved is
\* the original prompt, whose verification is empty and whose notes hold at
\* least one entry.
C1_NonJsonKeepsPrompt ==
    \A e \in Evals :
        (Ended(e) /\ GotResponse(e) /\ LastTaken(e).r.content \in NonJsonContents) =>
            /\ pc[e] = "done"
            /\ outcome[e].val.improved = PyStr(raw_prompt[e])
            /\ DefaultLists(outcome[e].val)

\* The judge's answer as judge_and_rewrite hands it to score_and_improve.
JudgeData(e) == parse_response(LastTaken(e).r, sent[e][1].model).data

\* The judge produced no rewrite: its answer is an object whose improved is
\* absent, null or the empty string.
NoRewrite(data) ==
    /\ data.t = "dict"
    /\ \/ "improved" \notin DOMAIN data.v
       \/ data.v["improved"].t = "None"
       \/ data.v["improved"] = PyStr(<<>>)

\* C2: in every returned result improved is not empty (for a prompt that is
\* not empty), and it is the original prompt whenever the judge produced no
\* rewrite.
C2_ImprovedNeverEmpty ==
    \A e \in Evals :
        pc[e] = "done" =>
            /\ raw_prompt[e] # <<>> => outcome[e].val.improved # PyStr(<<>>)
            /\ NoRewrite(JudgeData(e)) => outcome[e].val.improved = PyStr(raw_prompt[e])

\* The judge's total of a merge call, 0 when it is absent or null.
ModelTotal(jt) == IF jt.kind = "int" THEN jt.total.v ELSE 0

\* C3: for every local total and judge total in [0, 100] the merge returns a
\* result whose final_score is an integer within one half of the mean of the
\* two totals, the judge's total counted as 0 when absent or null; (0, 0)
\* gives 0 and (100, 100) gives 100.
C3_FinalScoreIsRoundedMean ==
    (call.fn = "merge" /\ call.done) =>
        /\ ~call.ret.raised
        /\ call.ret.val.final_score \in 0..100
        /\ LET s == call.args[1] + ModelTotal(call.args[2])
               f == call.ret.val.final_score
           IN  /\ 2 * f - s <= 1
               /\ s - 2 * f <= 1
               /\ s = 0 => f = 0
               /\ s = 200 => f = 100

\* A merge of the local total 45 with a null judge total: 22.5 rounds to 22.
C3_Witness ==
    /\ call.fn = "merge"
    /\ call.done
    /\ call.args[1] = 45
    /\ call.args[2].kind = "null"
    /\ ~call.ret.raised
    /\ call.ret.val.final_score = 22

\* The first answer the evaluation took is the temperature's rejection.
FirstRejectedTemperature(e) ==
    /\ received[e] # <<>>
    /\ received[e][1].kind = "error"
    /\ received[e][1].err = TemperatureRejected

\* A second request is issued exactly on the temperature's rejection of the
\* first, and never a third.
RetryOnlyOnTemperature ==
    \A e \in Evals :
        /\ Len(sent[e]) <= 2
        /\ Len(sent[e]) = 2 <=> FirstRejectedTemperature(e)
        /\ Len(sent[e]) = 2 => "temperature" \notin DOMAIN sent[e][2]

\* The statement of C4 as the specification has it: the retry policy, and at
\* least one outbound call in every evaluation whose client was built.
C4_AtLeastOneCallOnceClientBuilt ==
    /\ RetryOnlyOnTemperature
    /\ \A e \in Evals :
          (pc[e] # "idle" /\ ~get_client(env).raised) => Len(sent[e]) >= 1

\* C4: an evaluation issues a second request if and only if its first request
\* failed with the temperature's rejection, the second request carries no
\* temperature, and there is never a third; an evaluation makes at least one
\* call once the client is built and the timeout setting is read as a number.
C4_RetryPolicy ==
    /\ RetryOnlyOnTemperature
    /\ \A e \in Evals :
          (pc[e] # "idle" /\ ~get_client(env).raised /\ ~get_timeout(env).raised) =>
              Len(sent[e]) >= 1

\* An evaluation that ended after two requests, and the other that ended after
\* one request that failed for another reason.
C4_Witness ==
    /\ Ended(1)
    /\ Len(sent[1]) = 2
    /\ Len(received[1]) = 2
    /\ Ended(2)
    /\ Len(sent[2]) = 1
    /\ received[2] # <<>>
    /\ received[2][1].kind = "error"

\* The judge call of the evaluation ended in failure: the first request failed
\* with another error than the temperature's rejection, or the retry failed.
JudgeCallFailed(e) ==
    /\ received[e] # <<>>
    /\ LastTaken(e).kind = "error"
    /\ \/ Len(received[e]) = 2
       \/ LastTaken(e).err # TemperatureRejected

\* C5: whenever the judge call ends in failure, score_and_improve raises the
\* judge call's exception and returns no result, partial or defaulted.
C5_FailurePropagates ==
    \A e \in Evals :
        JudgeCallFailed(e) =>
            /\ pc[e] = "raised"
            /\ outcome[e].raised
            /\ outcome[e].exc = LastTaken(e).err.type
            /\ outcome[e].val = PyNone

\* One evaluation whose retry timed out, and one whose first request had no
\* connection.
C5_Witness ==
    /\ JudgeCallFailed(1)
    /\ Len(received[1]) = 2
    /\ LastTaken(1).err.type = "APITimeoutError"
    /\ JudgeCallFailed(2)
    /\ Len(received[2]) = 1
    /\ LastTaken(2).err.type = "APIConnectionError"

\* The credential is absent: unset or empty.
KeyAbsent == env["OPENAI_API_KEY"] \in { Unset, PyStr(<<>>) }

\* C6: with OPENAI_API_KEY unset or empty, an evaluation that is attempted
\* raises the configuration error, returns no result, issues no request, and
\* the service answers none.
C6_NoKeyNoCall ==
    \A e \in Evals :
        (KeyAbsent /\ pc[e] # "idle") =>
            /\ pc[e] = "raised"
            /\ outcome[e].raised
            /\ outcome[e].exc = "RuntimeError"
            /\ outcome[e].val = PyNone
            /\ sent[e] = <<>>
            /\ served[e] = <<>>

\* Both evaluations attempted with the key set to the empty string.
C6_Witness ==
    /\ env["OPENAI_API_KEY"] = PyStr(<<>>)
    /\ \A e \in Evals : pc[e] = "raised" /\ outcome[e].exc = "RuntimeError"

\* C7: once the judge request has succeeded, the evaluation completes with a
\* result and no exception, for every response body.
C7_EveryBodyCompletes ==
    \A e \in Evals :
        GotResponse(e) => (pc[e] = "done" /\ ~outcome[e].raised)

\* C8: for every prompt text, the empty one included, score_prompt returns six
\* non-negative integer sub-scores within their caps (20, 20, 15, 20, 15, 10),
\* and total() is their sum and at most 100.
C8_SubScoresWithinCaps ==
    (call.fn = "score_prompt" /\ call.done) =>
        LET h == call.ret.val.h
        IN  /\ h.clarity \in 0..20
            /\ h.context \in 0..20
            /\ h.constraints \in 0..15
            /\ h.format_contract \in 0..20
            /\ h.guardrails \in 0..15
            /\ h.acceptance \in 0..10
            /\ call.ret.val.total = h.clarity + h.context + h.constraints
                                      + h.format_contract + h.guardrails + h.acceptance
            /\ call.ret.val.total <= 100

\* A prompt of three tokens that reaches the caps of clarity, of
\* format_contract and of guardrails.
C8_Witness ==
    /\ call.fn = "score_prompt"
    /\ call.done
    /\ Len(call.args[1]) = MaxLen
    /\ call.ret.val.h.clarity = 20
    /\ call.ret.val.h.format_contract = 20
    /\ call.ret.val.h.guardrails = 15

\* The user message of a request.
UserContent(params) == params.messages[2].content

\* The result score_and_improve derives from the evaluation's own prompt and
\* the last answer the service gave to the evaluation's own requests.
OwnResult(e) ==
    LET m      == served[e][Len(served[e])]
        parsed == parse_response(m.r, get_model(env))
    IN  merge(raw_prompt[e], total(score_prompt(raw_prompt[e])), parsed.data, parsed.usage)

\* C9: under every interleaving of two evaluations, every request of an
\* evaluation carries that evaluation's prompt, the service answers each
\* request at most once, the answers an evaluation takes are the answers
\* given to its own requests, in order, and a returned result is the one
\* derived from the evaluation's own prompt and its own judge response.
C9_NoInterference ==
    \A e \in Evals :
        /\ \A i \in DOMAIN sent[e] : UserContent(sent[e][i]) = raw_prompt[e]
        /\ Len(served[e]) <= Len(sent[e])
        /\ Len(received[e]) <= Len(served[e])
        /\ \A i \in DOMAIN received[e] : received[e][i] = served[e][i] /\ received[e][i].to = e
        /\ wire[e] # NoMsg => (wire[e].to = e /\ wire[e] = served[e][Len(served[e])])
        /\ pc[e] = "done" =>
              /\ Len(received[e]) = Len(served[e])
              /\ outcome[e] = OwnResult(e)
              /\ outcome[e].val.local_score = total(score_prompt(raw_prompt[e]))

\* Both evaluations returned, with different prompts and different judge
\* responses, and each result holds its own rewrite.
C9_Witness ==
    /\ pc[1] = "done"
    /\ pc[2] = "done"
    /\ raw_prompt[1] = DefaultPrompt
    /\ raw_prompt[2] = FixturePrompt
    /\ outcome[1].val.improved = PyStr(Rewritten)
    /\ outcome[2].val.improved = PyStr(<< "x" >>)
    /\ outcome[1].val.usage.total_tokens = 200
    /\ outcome[2].val.usage.total_tokens = 0

\* The diff has an entry with that mark ("-" removal, "+" addition).
HasMark(d, mark) == \E i \in DOMAIN d : d[i] = mark

\* The lines of a text, as a set.
LineSet(t) == { splitlines(t)[i] : i \in DOMAIN splitlines(t) }

\* The statement of C10 as the specification has it: the diff of a text with
\* itself is empty, and the diff of distinct texts is not empty and holds both
\* a removal entry and an addition entry.
C10_BothMarkersWhenDistinct ==
    (call.fn = "unified_diff" /\ call.done) =>
        LET a == call.args[1]
            b == call.args[2]
            d == call.ret.val
        IN  /\ a = b => d = <<>>
            /\ a # b => (d # <<>> /\ HasMark(d, "-") /\ HasMark(d, "+"))

\* C10: unified_diff(a, a) is empty; for distinct texts the diff is not empty
\* and holds a removal entry or an addition entry; it holds a removal entry
\* whenever a line of a is absent from b, and an addition entry whenever a
\* line of b is absent from a.
C10_MarkersForChangedLines ==
    (call.fn = "unified_diff" /\ call.done) =>
        LET a == call.args[1]
            b == call.args[2]
            d == call.ret.val
        IN  /\ a = b => d = <<>>
            /\ a # b => (d # <<>> /\ (HasMark(d, "-") \/ HasMark(d, "+")))
            /\ LineSet(a) \ LineSet(b) # {} => HasMark(d, "-")
            /\ LineSet(b) \ LineSet(a) # {} => HasMark(d, "+")

\* A line replaced by another: both entries; and the call is on distinct texts.
C10_Witness ==
    /\ call.fn = "unified_diff"
    /\ call.done
    /\ call.args[1] = << "a", NL, "b" >>
    /\ call.args[2] = << "a", NL, "a" >>
    /\ HasMark(call.ret.val, "-")
    /\ HasMark(call.ret.val, "+")

\* The three counters of a result's usage.
Counters(usage) ==
    << usage.prompt_tokens, usage.completion_tokens, usage.total_tokens >>

\* The three counters of r.usage as the service reports them, zero for each
\* when the response carries no usage object.
Reported(u) ==
    IF u = PyNone THEN << 0, 0, 0 >>
    ELSE << u.v.prompt_tokens, u.v.completion_tokens, u.v.total_tokens >>

\* C11: for every successful judge call, reading the usage raises nothing, and
\* the usage counters of the returned result are the counts the response
\* reports, or all zero when the response carries no usage object.
C11_UsageCounters ==
    \A e \in Evals :
        GotResponse(e) =>
            /\ Ended(e)
            /\ LastTaken(e).r.content = PyStr(<< "{}" >>) => pc[e] = "done"
            /\ pc[e] = "done" =>
                  /\ Counters(outcome[e].val.usage) = Reported(LastTaken(e).r.usage)
                  /\ outcome[e].val.usage.model = get_model(env)

\* One result with the reported counts and one with the zeros of a response
\* that carries no usage object.
C11_Witness ==
    /\ pc[1] = "done"
    /\ LastTaken(1).r.usage # PyNone
    /\ Counters(outcome[1].val.usage) = << 120, 80, 200 >>
    /\ pc[2] = "done"
    /\ LastTaken(2).r.usage = PyNone
    /\ Counters(outcome[2].val.usage) = << 0, 0, 0 >>

(***************************************************************************)
(* score_prompt on prompts that hold every marker.                         *)
(***************************************************************************)

\* Most tokens set into a marked prompt.
MaxExtra == 2

\* The markers, in the spelling of the fixture of tests/test_heuristics.py:
\* role, context, idempotency, format directive, guardrail, acceptance.
RoleMarkers == { "Act as" }

ContextMarkers == { "RHEL9" }

ConstraintMarkers == { "idempotent" }

FormatMarkers == { "Respond only with" }

GuardrailMarkers == { "Do not fabricate", "Verification" }

AcceptMarkers == { "Acceptance" }

\* The task markers of the clarity award.
TaskMarkers == { "Task:", "Write", "Create" }

\* One marker of each kind, in the order of the fixture.
MarkedCores ==
    { << r, c, k, f, g, a >> :
        r \in RoleMarkers, c \in ContextMarkers, k \in ConstraintMarkers,
        f \in FormatMarkers, g \in GuardrailMarkers, a \in AcceptMarkers }

\* A core with any text of at most MaxExtra tokens set in at any place.
MarkedPrompts ==
    { SubSeq(core, 1, i) \o x \o SubSeq(core, i + 1, Len(core)) :
        core \in MarkedCores, i \in 0..6, x \in SeqsUpTo(Vocab, MaxExtra) }

SpecMarked ==
    /\ InitCall("score_prompt", { << t >> : t \in MarkedPrompts })
    /\ [][ApplyScore]_vars

\* The text holds a token of the set.
Holds(t, S) == \E i \in DOMAIN t : t[i] \in S

\* The text holds a marker of every kind.
HasAllMarkers(t) ==
    /\ Holds(t, RoleMarkers)
    /\ Holds(t, ContextMarkers)
    /\ Holds(t, ConstraintMarkers)
    /\ Holds(t, FormatMarkers)
    /\ Holds(t, GuardrailMarkers)
    /\ Holds(t, AcceptMarkers)

\* C12: every prompt that holds a role marker, a context marker, an
\* idempotency keyword, the directive "Respond only with", guardrail language
\* and acceptance language gets format_contract >= 15, guardrails >= 10 and
\* total > 60, whatever else it holds, a task marker or none.
C12_MarkedPromptScores ==
    (call.fn = "score_prompt" /\ call.done /\ HasAllMarkers(call.args[1])) =>
        /\ call.ret.val.h.format_contract >= 15
        /\ call.ret.val.h.guardrails >= 10
        /\ call.ret.val.total > 60

\* A marked prompt without a task marker: clarity 12, total 92.
C12_Witness ==
    /\ call.fn = "score_prompt"
    /\ call.done
    /\ HasAllMarkers(call.args[1])
    /\ ~Holds(call.args[1], TaskMarkers)
    /\ call.ret.val.h.clarity = 12
    /\ call.ret.val.total = 92

\* The bodies that stand for the empty object: no body, the empty body, "{}".
EmptyObjectBodies == { PyNone, PyStr(<<>>), PyStr(<< "{}" >>) }

\* The JSON value of the body the evaluation took, the empty object for an
\* absent or empty body.
BodyValue(e) ==
    IF LastTaken(e).r.content \in EmptyObjectBodies THEN EmptyDict
    ELSE safe_json_loads(LastTaken(e).r.content.v)

\* The key is absent from the judge's object.
Lacks(data, key) == data.t = "dict" /\ key \notin DOMAIN data.v

\* final_score is the rounded half of the local total alone.
FinalFromLocalAndZero(res) ==
    /\ 2 * res.final_score - res.local_score <= 1
    /\ res.local_score - 2 * res.final_score <= 1

\* C13: when the judge's response is a JSON object that lacks judgment keys,
\* the result takes the defaults: without scorecard model_score is 0 and
\* final_score comes from the local total and 0, without improved the result's
\* improved is the original prompt and diff is empty, without verification or
\* notes those are empty lists; the empty object, also the one that stands
\* for an absent or empty body, always returns a result, with all of these.
C13_DefaultsForAbsentKeys ==
    \A e \in Evals :
        GotResponse(e) =>
            /\ LastTaken(e).r.content \in EmptyObjectBodies => pc[e] = "done"
            /\ pc[e] = "done" =>
                  LET res  == outcome[e].val
                      data == BodyValue(e)
                  IN  /\ res.local_score = total(score_prompt(raw_prompt[e]))
                      /\ Lacks(data, "scorecard") =>
                            /\ res.model_score = PyInt(0)
                            /\ res.scorecard = EmptyDict
                            /\ FinalFromLocalAndZero(res)
                      /\ Lacks(data, "improved") =>
                            /\ res.improved = PyStr(raw_prompt[e])
                            /\ res.diff = <<>>
                      /\ Lacks(data, "verification") => res.verification = PyList(<<>>)
                      /\ Lacks(data, "notes") => res.notes = PyList(<<>>)

\* An absent body on the default prompt and the body "{}" on the fixture: the
\* results hold the prompts, no diff, and the halves of 45 and of 100.
C13_Witness ==
    /\ pc[1] = "done"
    /\ LastTaken(1).r.content = PyNone
    /\ raw_prompt[1] = DefaultPrompt
    /\ outcome[1].val.improved = PyStr(DefaultPrompt)
    /\ outcome[1].val.diff = <<>>
    /\ outcome[1].val.final_score = 22
    /\ pc[2] = "done"
    /\ LastTaken(2).r.content = PyStr(<< "{}" >>)
    /\ raw_prompt[2] = FixturePrompt
    /\ outcome[2].val.improved = PyStr(FixturePrompt)
    /\ outcome[2].val.model_score = PyInt(0)
    /\ outcome[2].val.final_score = 50

\* A single call of score_prompt on a text, or of the merge on two totals.
SpecRound ==
    /\ \/ InitCall("score_prompt", { << t >> : t \in SeqsUpTo(Vocab, MaxLen) })
       \/ InitCall("merge", (0..100) \X JudgeTotals)
    /\ [][ApplyScore \/ ApplyMerge]_vars

\* C14: when the local total plus the judge's total is odd, final_score is
\* the even one of the two integers next to the mean; (45, 0) gives 22 and
\* (47, 0) gives 24.  Every local total of score_prompt is at least 45, and
\* from a local total of at least 45 final_score is at least 22.
C14_HalfToEven ==
    /\ (call.fn = "merge" /\ call.done) =>
          /\ ~call.ret.raised
          /\ LET s == call.args[1] + ModelTotal(call.args[2])
                 f == call.ret.val.final_score
             IN  /\ s % 2 = 1 => (f % 2 = 0 /\ (2 * f = s + 1 \/ 2 * f = s - 1))
                 /\ s = 45 => f = 22
                 /\ s = 47 => f = 24
                 /\ call.args[1] >= 45 => f >= 22
    /\ (call.fn = "score_prompt" /\ call.done) => call.ret.val.total >= 45

\* The totals (47, 0): 23.5 is rounded up to 24.
C14_Witness ==
    /\ call.fn = "merge"
    /\ call.done
    /\ call.args[1] = 47
    /\ call.args[2] = [ kind |-> "int", total |-> PyInt(0) ]
    /\ call.ret.val.final_score = 24

====
